---- MODULE Spec2Model ----
(***************************************************************************)
(* Model of src/target/linux/readmem.rs: ReadMemory, the batch of ReadOps  *)
(* built by read / read_ptr / read_slice / read_byte_slice, the page       *)
(* splitter ReadOp::split_on_page_boundary, and apply() with its batched   *)
(* reader (process_vm_readv) and its per-word fallback (ptrace peek).      *)
(*                                                                         *)
(* Sizes are scaled down, the relations between them kept: a page holds    *)
(* two machine words, usize has UsizeBits bits, the debuggee's user        *)
(* address space is the lower half of the usize range.                     *)
(***************************************************************************)
EXTENDS Integers, Sequences, FiniteSets, TLC

\* ------------------------------------------------------------ constants
\* *PAGE_SIZE (4096 on the target), scaled; a power of two.
PAGE_SIZE == 4
\* size_of::<c_long>() (8 on the target), scaled; PAGE_SIZE is a multiple of it.
long_size == 2
\* Width of usize (64 on the target), scaled.
UsizeBits == 4
\* Number of values of a u8 (256), scaled; every debuggee byte is below it.
U8Values == 16

UsizeMod == 2 ^ UsizeBits
\* isize::MAX
IsizeMax == (UsizeMod \div 2) - 1

\* -------------------------------------------------------------- bounds
\* Requests made on one batch before apply().
MaxReqs == 2
\* apply() is followed through its I/O for batches of at most this many requests
\* (a request over a page boundary already gives a batch of several ops).
MaxApplyReqs == 1

\* Largest length of one request: the whole user address space.
MaxLen == IsizeMax + 1

\* The debuggee's user address space: addresses 0 .. IsizeMax.
RemoteAddrs == 0 .. IsizeMax
NumPages == (IsizeMax + 1) \div PAGE_SIZE
Pages == 0 .. (NumPages - 1)
\* Caller memory: two sentinel bytes, then one buffer per request, each
\* followed by one sentinel byte.
LocalBase == long_size
LocalSize == LocalBase + MaxReqs * (MaxLen + 1)
LocalAddrs == 0 .. (LocalSize - 1)

Min(a, b) == IF a < b THEN a ELSE b

VARIABLES
    pc,          \* "build", then apply()'s position: "first", "maps", "second", "ptrace", "done"
    read_ops,    \* ReadMemory.read_ops
    requests,    \* the requests made so far, unsplit, in order
    pages,       \* debuggee, as apply() finds it: page -> "r" readable, "p" mapped but
                 \* protected, "u" unmapped
    local,       \* caller memory: address -> byte (0: never written)
    wlog,        \* caller memory: address -> the writers of that byte, in order
    result,      \* what apply() produced
    calls,       \* how often apply() invoked each primitive
    first_res,   \* result of the first read_process_vm
    second_res,  \* result of the second read_process_vm
    protected,   \* split_protected's first component
    readable,    \* split_protected's second component
    peeks        \* every ptrace::read issued: [remote_base, len, addr]

vars == <<pc, read_ops, requests, pages, local, wlog, result, calls,
          first_res, second_res, protected, readable, peeks>>

\* ------------------------------------------------------------ debuggee
PageOf(a) == a \div PAGE_SIZE
\* The byte the debuggee holds at address a: distinct per address, never 0.
RemoteByte(a) == a + 1
PageState(a) == IF a \in RemoteAddrs THEN pages[PageOf(a)] ELSE "u"

RECURSIVE SumLen(_)
SumLen(ops) == IF ops = <<>> THEN 0 ELSE Head(ops).len + SumLen(Tail(ops))

\* ------------------------------------------------------------- ReadOp
ReadOp(remote_base, len, local_ptr) ==
    [remote_base |-> remote_base, len |-> len, local_ptr |-> local_ptr]

\* a & b on naturals
RECURSIVE BitAnd(_, _)
BitAnd(a, b) ==
    IF a = 0 \/ b = 0 THEN 0
    ELSE (a % 2) * (b % 2) + 2 * BitAnd(a \div 2, b \div 2)

next_page_distance_off_by_one(op) == PAGE_SIZE - 1 - BitAnd(PAGE_SIZE - 1, op.remote_base)
next_page_distance(op) == PAGE_SIZE - BitAnd(PAGE_SIZE - 1, op.remote_base)

\* The op pushed inside the loop when `left` bytes remain.
split_piece_same_local(op, left, len) ==
    ReadOp(op.remote_base + (op.len - left), len, op.local_ptr)
split_piece(op, left, len) ==
    ReadOp(op.remote_base + (op.len - left), len, op.local_ptr + (op.len - left))

RECURSIVE split_loop(_, _, _)
split_loop(op, left, out) ==
    IF left > 0
    THEN IF left < PAGE_SIZE
         THEN Append(out, split_piece(op, left, left))
         ELSE split_loop(op, left - PAGE_SIZE, Append(out, split_piece(op, left, PAGE_SIZE)))
    ELSE out

split_on_page_boundary(op, out) ==
    LET to_next_read_op == Min(op.len, next_page_distance(op))
        first == Append(out, ReadOp(op.remote_base, to_next_read_op, op.local_ptr))
    IN  split_loop(op, op.len - to_next_read_op, first)

\* --------------------------------------------------- request operations
\* The caller's next destination buffer.
NextLocal ==
    IF requests = <<>> THEN LocalBase
    ELSE requests[Len(requests)].local_ptr + requests[Len(requests)].len + 1

\* One request: the ReadOp is split into the batch. The requests followed are the
\* non-empty ones whose range lies in the address space; the destination is a buffer
\* of the caller's that no other request uses.
Request(remote_base, len) ==
    /\ pc = "build"
    /\ Len(requests) < MaxReqs
    /\ len >= 1
    /\ len <= MaxLen
    /\ remote_base + len - 1 \in RemoteAddrs
    /\ read_ops' = split_on_page_boundary(ReadOp(remote_base, len, NextLocal), read_ops)
    /\ requests' = Append(requests, ReadOp(remote_base, len, NextLocal))
    /\ UNCHANGED <<pc, pages, local, wlog, result, calls, first_res, second_res,
                   protected, readable, peeks>>

\* read<T>(val, remote_base): len = size_of::<T>()
read ==
    \E size_of_T \in 1 .. MaxLen :
        \E remote_base \in 0 .. (IsizeMax + 1 - size_of_T) :
            Request(remote_base, size_of_T)

\* read_ptr<T>(ptr, remote_base): len = size_of::<T>()
read_ptr ==
    \E size_of_T \in 1 .. MaxLen :
        \E remote_base \in 0 .. (IsizeMax + 1 - size_of_T) :
            Request(remote_base, size_of_T)

\* read_slice<T>(val, remote_base): len = val.len() * size_of::<T>()
read_slice ==
    \E size_of_T \in 1 .. MaxLen :
        \E val_len \in 1 .. (MaxLen \div size_of_T) :
            \E remote_base \in 0 .. (IsizeMax + 1 - val_len * size_of_T) :
                Request(remote_base, val_len * size_of_T)

\* read_byte_slice(val, remote_base): len = val.len()
read_byte_slice ==
    \E val_len \in 1 .. MaxLen :
        \E remote_base \in 0 .. (IsizeMax + 1 - val_len) :
            Request(remote_base, val_len)

\* ------------------------------------------------------ caller memory
\* Caller memory st = [mem, log] after `vals` is stored at lp .. lp+Len(vals)-1 by `tag`.
Store(st, tag, lp, vals) ==
    [mem |-> [a \in LocalAddrs |->
                IF a >= lp /\ a < lp + Len(vals) THEN vals[a - lp + 1] ELSE st.mem[a]],
     log |-> [a \in LocalAddrs |->
                IF a >= lp /\ a < lp + Len(vals) THEN Append(st.log[a], tag) ELSE st.log[a]]]

\* ------------------------------------------------------ batched reader
NoRes == [kind |-> "none", n |-> 0, errno |-> "-"]
OkRes(n) == [kind |-> "Ok", n |-> n, errno |-> "-"]
ErrRes(errno) == [kind |-> "Err", n |-> 0, errno |-> errno]

\* The kernel copies an iovec element only from readable pages.
OpReadable(op) == \A i \in 0 .. (op.len - 1) : PageState(op.remote_base + i) = "r"

\* process_vm_readv transfers whole elements, in order, up to the first one it cannot read.
RECURSIVE vm_prefix(_)
vm_prefix(ops) ==
    IF ops = <<>> THEN 0
    ELSE IF OpReadable(Head(ops)) THEN 1 + vm_prefix(Tail(ops)) ELSE 0

RemoteBytes(op) == [i \in 1 .. op.len |-> RemoteByte(op.remote_base + i - 1)]

RECURSIVE vm_copy(_, _, _)
vm_copy(st, ops, tag) ==
    IF ops = <<>> THEN st
    ELSE vm_copy(Store(st, tag, Head(ops).local_ptr, RemoteBytes(Head(ops))), Tail(ops), tag)

\* libc::process_vm_readv: bytes read, or -1 with errno. `other` is a failure that is
\* not a page fault (EINVAL for more than IOV_MAX elements, ENOMEM, EPERM, ESRCH); the
\* call also fails with EINVAL when the lengths sum to more than its ssize_t result holds.
process_vm_readv(ops, other) ==
    LET k == vm_prefix(ops)
        n == SumLen(SubSeq(ops, 1, k))
    IN  IF other \/ SumLen(ops) > IsizeMax THEN [bytes_read |-> -1, errno |-> "OTHER", copied |-> 0]
        ELSE IF k < Len(ops) /\ n = 0 THEN [bytes_read |-> -1, errno |-> "EFAULT", copied |-> 0]
        ELSE [bytes_read |-> n, errno |-> "-", copied |-> k]

\* read_process_vm's return value.
read_process_vm(ops, other) ==
    LET r == process_vm_readv(ops, other)
    IN  IF r.bytes_read = -1 THEN ErrRes(r.errno) ELSE OkRes(r.bytes_read)

\* read_process_vm's effect on caller memory.
read_process_vm_mem(st, ops, other, tag) ==
    vm_copy(st, SubSeq(ops, 1, process_vm_readv(ops, other).copied), tag)

\* ----------------------------------------------------- fallback reader
\* ptrace(PTRACE_PEEKDATA) reads one word at addr, whatever the page protection;
\* it fails when a byte of the word is not mapped.
PeekOk(addr) == \A i \in 0 .. (long_size - 1) : PageState(addr + i) # "u"

RECURSIVE Pow(_, _)
Pow(b, e) == IF e = 0 THEN 1 ELSE b * Pow(b, e - 1)

\* The c_long ptrace::read returns: the word's bytes, lowest address first (native order).
RECURSIVE peek_word(_, _)
peek_word(addr, i) ==
    IF i = long_size THEN 0
    ELSE RemoteByte(addr + i) * Pow(U8Values, i) + peek_word(addr, i + 1)

\* data.to_ne_bytes()
to_ne_bytes(data) == [i \in 1 .. long_size |-> (data \div Pow(U8Values, i - 1)) % U8Values]

\* Bytes stored by one iteration: the whole word, or the part that is left.
ptrace_store_len_whole_word(op, offset) == long_size
ptrace_store_len(op, offset) ==
    IF (op.len - offset) >= long_size THEN long_size ELSE op.len - offset

\* st = [mem, log, peeks, n, status]. fail_at: the peek that fails although mapped
\* (0: none). checked: the build checks pointer alignment on dereference.
RECURSIVE ptrace_loop(_, _, _, _, _)
ptrace_loop(st, ops, offset, fail_at, checked) ==
    IF ops = <<>> THEN st
    ELSE LET op == Head(ops) IN
         IF ~(offset < op.len) THEN ptrace_loop(st, Tail(ops), 0, fail_at, checked)
         ELSE LET addr == op.remote_base + offset
                  st1 == [st EXCEPT !.n = @ + 1,
                                    !.peeks = @ \cup {[remote_base |-> op.remote_base,
                                                       len |-> op.len, addr |-> addr]}]
              IN  IF st1.n = fail_at \/ ~PeekOk(addr)
                  THEN [st1 EXCEPT !.status = "Err"]
                  ELSE LET data == peek_word(addr, 0)
                           k == ptrace_store_len(op, offset)
                           sto == Store(st1, "ptrace", op.local_ptr + offset,
                                        SubSeq(to_ne_bytes(data), 1, k))
                       IN  IF (op.len - offset) >= long_size /\ checked
                              /\ (op.local_ptr + offset) % long_size # 0
                           \* *(ptr as *mut i64) = data through a misaligned pointer
                           THEN [st1 EXCEPT !.status = "panic"]
                           ELSE ptrace_loop([st1 EXCEPT !.mem = sto.mem, !.log = sto.log],
                                            ops, offset + long_size, fail_at, checked)

read_ptrace(ops, fail_at, checked) ==
    ptrace_loop([mem |-> local, log |-> wlog, peeks |-> peeks, n |-> 0, status |-> "Ok"],
                ops, 0, fail_at, checked)

RECURSIVE NumPeeks(_)
NumPeeks(ops) ==
    IF ops = <<>> THEN 0
    ELSE ((Head(ops).len + long_size - 1) \div long_size) + NumPeeks(Tail(ops))

\* -------------------------------------------------------------- apply
\* read_ops.iter().fold(0, |sum, read_op| sum + read_op.len), in usize arithmetic
RECURSIVE fold_len(_, _)
fold_len(ops, sum) ==
    IF ops = <<>> THEN sum ELSE fold_len(Tail(ops), (sum + Head(ops).len) % UsizeMod)
read_len == fold_len(read_ops, 0)
\* The fold's addition overflows usize (a panic where overflow is checked).
fold_overflows == SumLen(read_ops) >= UsizeMod

too_big_never(len) == FALSE
too_big(len) == len > IsizeMax

\* The condition under which apply() goes on to the memory maps.
needs_retry_any_error(res, len) ==
    \/ res.kind = "Err"
    \/ res.kind = "Ok" /\ res.n # len
needs_retry(res, len) ==
    \/ res.kind = "Err" /\ res.errno = "EFAULT"
    \/ res.kind = "Ok" /\ res.n # len

\* target.memory_maps() filtered by !is_readable: the mapped, unreadable pages.
protected_maps == {p \in Pages : pages[p] = "p"}

\* memory::split_protected: the ops on a protected map, and the rest.
split_protected(maps, ops) ==
    [protected |-> SelectSeq(ops, LAMBDA op : PageOf(op.remote_base) \in maps),
     readable  |-> SelectSeq(ops, LAMBDA op : PageOf(op.remote_base) \notin maps)]

Finish(r) ==
    /\ pc' = "done"
    /\ result' = r

\* fold, where the addition panics on overflow
ApplyOverflow ==
    /\ pc = "build"
    /\ fold_overflows
    /\ Finish("panic_overflow")
    /\ UNCHANGED <<read_ops, requests, pages, local, wlog, calls, first_res, second_res,
                   protected, readable, peeks>>

\* if read_len > isize::MAX { panic!("Read size too big") }
ApplyTooBig ==
    /\ pc = "build"
    /\ too_big(read_len)
    /\ Finish("panic_too_big")
    /\ UNCHANGED <<read_ops, requests, pages, local, wlog, calls, first_res, second_res,
                   protected, readable, peeks>>

\* The size check passes; the debuggee's pages are in any state by now.
ApplyBegin ==
    /\ pc = "build"
    /\ Len(requests) <= MaxApplyReqs
    /\ ~too_big(read_len)
    /\ pc' = "first"
    /\ pages' \in [Pages -> {"r", "p", "u"}]
    /\ UNCHANGED <<read_ops, requests, local, wlog, result, calls, first_res,
                   second_res, protected, readable, peeks>>

\* let result = Self::read_process_vm(pid, &self.read_ops); and the test of it
ApplyFirstBatch ==
    /\ pc = "first"
    /\ \E other \in BOOLEAN :
        LET res == read_process_vm(read_ops, other)
            st == read_process_vm_mem([mem |-> local, log |-> wlog], read_ops, other, "batch1")
        IN  /\ first_res' = res
            /\ local' = st.mem
            /\ wlog' = st.log
            /\ calls' = [calls EXCEPT !.batch = @ + 1]
            /\ IF needs_retry(res, read_len)
               THEN pc' = "maps" /\ UNCHANGED result
               ELSE Finish("Ok")
    /\ UNCHANGED <<read_ops, requests, pages, second_res, protected, readable, peeks>>

\* self.target.memory_maps()? ... split_protected(&protected_maps, ...)?
ApplyMaps ==
    /\ pc = "maps"
    /\ calls' = [calls EXCEPT !.maps = @ + 1]
    /\ \E fails \in BOOLEAN :
        IF fails
        THEN Finish("Err_maps") /\ UNCHANGED <<protected, readable>>
        ELSE LET sp == split_protected(protected_maps, read_ops)
             IN  /\ protected' = sp.protected
                 /\ readable' = sp.readable
                 /\ pc' = "second"
                 /\ UNCHANGED result
    /\ UNCHANGED <<read_ops, requests, pages, local, wlog, first_res, second_res, peeks>>

ApplySecondBatch_swallow ==
    /\ pc = "second"
    /\ \E other \in BOOLEAN :
        LET res == read_process_vm(readable, other)
            st == read_process_vm_mem([mem |-> local, log |-> wlog], readable, other, "batch2")
        IN  /\ second_res' = res
            /\ local' = st.mem
            /\ wlog' = st.log
            /\ calls' = [calls EXCEPT !.batch = @ + 1]
            /\ pc' = "ptrace"
            /\ UNCHANGED result
    /\ UNCHANGED <<read_ops, requests, pages, first_res, protected, readable, peeks>>

\* Self::read_process_vm(pid, &readable)?;
ApplySecondBatch ==
    /\ pc = "second"
    /\ \E other \in BOOLEAN :
        LET res == read_process_vm(readable, other)
            st == read_process_vm_mem([mem |-> local, log |-> wlog], readable, other, "batch2")
        IN  /\ second_res' = res
            /\ local' = st.mem
            /\ wlog' = st.log
            /\ calls' = [calls EXCEPT !.batch = @ + 1]
            /\ IF res.kind = "Err"
               THEN Finish(IF res.errno = "EFAULT" THEN "Err_EFAULT" ELSE "Err_OTHER")
               ELSE pc' = "ptrace" /\ UNCHANGED result
    /\ UNCHANGED <<read_ops, requests, pages, first_res, protected, readable, peeks>>

\* Self::read_ptrace(pid, &protected)?; Ok(())
ApplyPtrace ==
    /\ pc = "ptrace"
    /\ \E fail_at \in 0 .. NumPeeks(protected), checked \in BOOLEAN :
        LET st == read_ptrace(protected, fail_at, checked)
        IN  /\ local' = st.mem
            /\ wlog' = st.log
            /\ peeks' = st.peeks
            /\ Finish(CASE st.status = "Ok" -> "Ok"
                        [] st.status = "Err" -> "Err_peek"
                        [] OTHER -> "panic_misaligned")
    /\ calls' = [calls EXCEPT !.ptrace = @ + 1]
    /\ UNCHANGED <<read_ops, requests, pages, first_res, second_res, protected, readable>>

\* ------------------------------------------------------ specification
\* ReadMemory::new: an empty batch.
Init ==
    /\ pc = "build"
    /\ read_ops = <<>>
    /\ requests = <<>>
    /\ pages = [p \in Pages |-> "r"]
    /\ local = [a \in LocalAddrs |-> 0]
    /\ wlog = [a \in LocalAddrs |-> <<>>]
    /\ result = "none"
    /\ calls = [batch |-> 0, maps |-> 0, ptrace |-> 0]
    /\ first_res = NoRes
    /\ second_res = NoRes
    /\ protected = <<>>
    /\ readable = <<>>
    /\ peeks = {}

Next ==
    \/ read
    \/ read_ptr
    \/ read_slice
    \/ read_byte_slice
    \/ ApplyOverflow
    \/ ApplyTooBig
    \/ ApplyBegin
    \/ ApplyFirstBatch
    \/ ApplyMaps
    \/ ApplySecondBatch
    \/ ApplyPtrace

Spec == Init /\ [][Next]_vars

\* ------------------------------------------------------------ helpers
Range(f) == {f[i] : i \in DOMAIN f}
Ops(seq) == Range(seq)
\* The caller memory an op (or an unsplit request) is to fill.
Dest(op) == op.local_ptr .. (op.local_ptr + op.len - 1)
DestOf(seq) == UNION {Dest(op) : op \in Ops(seq)}
\* The op's range lies in one page.
InOnePage(op) ==
    \E p \in Pages : /\ p * PAGE_SIZE <= op.remote_base
                     /\ op.remote_base + op.len <= (p + 1) * PAGE_SIZE
OpOn(op, state) == PageState(op.remote_base) = state
\* Every byte of the op's destination holds the debuggee's byte.
Transferred(op) ==
    \A i \in 0 .. (op.len - 1) : local[op.local_ptr + i] = RemoteByte(op.remote_base + i)
NoIO ==
    /\ calls = [batch |-> 0, maps |-> 0, ptrace |-> 0]
    /\ peeks = {}
    /\ \A a \in LocalAddrs : local[a] = 0 /\ wlog[a] = <<>>
Count(seq, tag) == Cardinality({i \in DOMAIN seq : seq[i] = tag})

\* ------------------------------------------------------------------ C1
\* C1: after any sequence of requests with non-empty lengths on a fresh batch, every
\* ReadOp of the batch has [remote_base, remote_base+len) inside a single page, and the
\* lengths of the ops sum to the lengths of the requests.
C1_OpsWithinOnePage ==
    /\ \A op \in Ops(read_ops) : InOnePage(op)
    /\ SumLen(read_ops) = SumLen(requests)

\* Two requests, one of them over a page boundary with a whole page left after its
\* first op.
C1_Witness ==
    /\ Len(requests) = 2
    /\ \E r \in Ops(requests) : r.remote_base % PAGE_SIZE # 0 /\ r.len > PAGE_SIZE
    /\ Len(read_ops) > 2

\* ------------------------------------------------------------------ C2
\* The range of a request cut at every multiple of PAGE_SIZE and nowhere else: one op
\* per page touched, ascending, the local offset equal to the remote offset.
RefPiece(req, p) ==
    LET lo == IF req.remote_base > p * PAGE_SIZE THEN req.remote_base ELSE p * PAGE_SIZE
        hi == Min(req.remote_base + req.len, (p + 1) * PAGE_SIZE)
    IN  ReadOp(lo, hi - lo, req.local_ptr + (lo - req.remote_base))
RefSplit(req) ==
    LET first == PageOf(req.remote_base)
        last == PageOf(req.remote_base + req.len - 1)
    IN  [k \in 1 .. (last - first + 1) |-> RefPiece(req, first + k - 1)]
RECURSIVE RefBatch(_)
RefBatch(reqs) == IF reqs = <<>> THEN <<>> ELSE RefSplit(Head(reqs)) \o RefBatch(Tail(reqs))

\* C2: for every request (remote_base, len > 0, local_ptr) split_on_page_boundary appends
\* exactly the reference decomposition: cut at every page boundary and nowhere else, in
\* ascending order, each op's local offset equal to its remote offset.
C2_SplitIsReference == read_ops = RefBatch(requests)

\* The request [PAGE_SIZE - 1, PAGE_SIZE + 2) (the scaled [0x1ffc, 0x2008)) has given
\* exactly two ops: the bytes before the boundary, and the bytes from it.
C2_Witness ==
    /\ requests = <<ReadOp(PAGE_SIZE - 1, 3, LocalBase)>>
    /\ read_ops = <<ReadOp(PAGE_SIZE - 1, 1, LocalBase), ReadOp(PAGE_SIZE, 2, LocalBase + 1)>>

\* ------------------------------------------------------------------ C3
\* C3: whenever apply() returns success, every byte of every requested destination
\* range has been transferred from the debuggee address it was requested from (so any
\* failure of a reader that leaves a requested byte untransferred makes apply() return
\* an error).
C3_SuccessMeansTransferred ==
    result = "Ok" => \A r \in Ops(requests) : Transferred(r)

MixedBatch ==
    /\ \E op \in Ops(read_ops) : OpOn(op, "r")
    /\ \E op \in Ops(read_ops) : OpOn(op, "p")
    /\ \A op \in Ops(read_ops) : OpOn(op, "r") \/ OpOn(op, "p")

\* C5: for a batch partly on readable and partly on protected pages, when apply()
\* succeeds every destination byte of an op on a readable page was written by the
\* batched reader only, every one of an op on a protected page by the fallback reader
\* only, none more than once in the whole call and none left unwritten.
C5_EachByteWrittenOnce ==
    (result = "Ok" /\ MixedBatch) =>
        \A op \in Ops(read_ops) : \A a \in Dest(op) :
            /\ Len(wlog[a]) = 1
            /\ OpOn(op, "r") => wlog[a][1] \in {"batch1", "batch2"}
            /\ OpOn(op, "p") => wlog[a][1] = "ptrace"

\* ------------------------------------------------------------------ C6
\* C6: read_ptrace writes only the bytes at offsets [0, len) of each op, whatever the
\* length: a byte outside the ops' destinations is never written by it and keeps its
\* value, no byte is written by it twice (the destinations are disjoint, so a store
\* past one op's len would show in its neighbour or in the byte between them), and a
\* byte it wrote holds the debuggee byte at remote_base + i; after it returned Ok
\* every byte of every op is written.
C6_PtraceWritesOnlyLen ==
    /\ \A a \in LocalAddrs :
        /\ a \notin DestOf(protected) => Count(wlog[a], "ptrace") = 0
        /\ a \notin DestOf(requests) => local[a] = 0
        /\ Count(wlog[a], "ptrace") <= 1
    /\ \A op \in Ops(protected) : \A i \in 0 .. (op.len - 1) :
        LET a == op.local_ptr + i
        IN  /\ Count(wlog[a], "ptrace") = 1 => local[a] = RemoteByte(op.remote_base + i)
            /\ (calls.ptrace = 1 /\ result = "Ok") => Count(wlog[a], "ptrace") = 1

\* read_ptrace has returned Ok over an op of a whole word and a part of one, and
\* over an op shorter than a word.
C6_Witness ==
    /\ calls.ptrace = 1
    /\ result = "Ok"
    /\ \E op \in Ops(protected) : op.len > long_size /\ op.len % long_size # 0
    /\ \E op \in Ops(protected) : op.len < long_size

\* ------------------------------------------------------------------ C7
\* C7: for a batch whose requests all lie in mapped but protected memory, with a peek
\* that does not fail, apply() returns success, every requested byte equals the
\* debuggee's, the permission-fault path is taken and the fallback reader is invoked
\* exactly once.
C7_ProtectedBatchSucceeds ==
    (/\ pc = "done"
     /\ read_ops # <<>>
     /\ result \notin {"panic_too_big", "panic_overflow", "Err_peek"}
     /\ \A op \in Ops(read_ops) : OpOn(op, "p")) =>
        /\ result = "Ok"
        /\ \A r \in Ops(requests) : Transferred(r)
        /\ first_res = ErrRes("EFAULT")
        /\ calls.maps = 1
        /\ calls.ptrace = 1

\* ------------------------------------------------------------------ C8
\* C8: apply() invokes the batched reader at most twice and the memory-map query at
\* most once; if the second, readable-only batched call reports a fault, apply()
\* returns that fault as an error, with no further batched call and without the
\* fallback reader.
C8_RetriedOnce ==
    /\ calls.batch <= 2
    /\ calls.maps <= 1
    /\ second_res.kind = "Err" =>
        /\ pc = "done"
        /\ result = (IF second_res.errno = "EFAULT" THEN "Err_EFAULT" ELSE "Err_OTHER")
        /\ calls.batch = 2
        /\ calls.ptrace = 0
        /\ peeks = {}

\* The readable-only call has faulted on an op of a page the maps do not list as
\* protected.
C8_Witness ==
    /\ second_res = ErrRes("EFAULT")
    /\ readable # <<>>
    /\ pc = "done"

\* ------------------------------------------------------------------ C9
\* C9: when the first batched read reports success with bytes_transferred equal to the
\* sum of the op lengths, apply() returns success at once: no memory-map query, no
\* second batched read, no peek; and the memory-map query is made only after the first
\* batched call reported a permission fault or a short byte count.
C9_FastPath ==
    /\ (first_res.kind = "Ok" /\ first_res.n = SumLen(read_ops)) =>
        /\ pc = "done"
        /\ result = "Ok"
        /\ calls = [batch |-> 1, maps |-> 0, ptrace |-> 0]
        /\ peeks = {}
    /\ calls.maps > 0 =>
        \/ first_res = ErrRes("EFAULT")
        \/ first_res.kind = "Ok" /\ first_res.n # SumLen(read_ops)

\* The first batched read has transferred a whole batch of two ops.
C9_Witness ==
    /\ first_res = OkRes(SumLen(read_ops))
    /\ Len(read_ops) = 2
    /\ pc = "done"

\* ----------------------------------------------------------------- C10
\* C10: every word read_ptrace peeks lies within the page of the op it serves.
C10_PeekWithinPage ==
    \A pk \in peeks : PageOf(pk.addr + long_size - 1) = PageOf(pk.remote_base)

====
